---- MODULE Spec2Model ----
(***************************************************************************)
(* The resumable ingest task orchestrator of rag-api: the task and item    *)
(* rows of apps/ingest/task_store.py and the run loop of                   *)
(* apps/ingest/cli.py, run by several worker processes against one store.  *)
(*                                                                         *)
(* Every store function opens its connection with Db.connect, that is      *)
(* with autocommit=True (core/db.py:13-14): each SQL statement is its own  *)
(* transaction, so a function that issues several statements is several    *)
(* steps here, and other processes' statements may run between them.       *)
(* A single statement runs under PostgreSQL READ COMMITTED: its sub-select *)
(* reads the statement's snapshot, while the row it updates is re-read in  *)
(* its latest committed version and only the UPDATE's own WHERE clause is  *)
(* re-checked against it.                                                  *)
(*                                                                         *)
(* The timestamp columns (started_at, finished_at, heartbeat_at) are not   *)
(* part of the state; an item's pipeline is one step that returns or       *)
(* raises.  runs counts the process starts, bounded by MaxRuns.            *)
(***************************************************************************)
EXTENDS Integers, FiniteSets, Sequences, TLC

(* ---------------------------------------------------------------- bounds *)
\* the source paths the task was created from
NumItems == 2
\* the runs of main() (the first run and the resumes) a behaviour may start
MaxRuns == 2
\* the chunks of one document, and the chunk ordinals 0 .. MaxChunks - 1
MaxChunks == 2

Workers == {"w1", "w2"}
Ordinals == 0 .. (NumItems - 1)

(* ------------------------------------------------------------- constants *)
NULL == "null"
NoItem == -1

RunStrategy == {"fail", "skip"}
PipelineMode == {"full", "extract_only"}
InputMode == {"pdf", "chunks"}

\* the three run modes main() can create a task with
ModePairs == {<<"full", "pdf">>, <<"extract_only", "pdf">>, <<"full", "chunks">>}

OutDirs == {"var/extracted", "var/other"}
DefaultOutDir == "var/extracted"

RecoveredMarker == "Recovered for retry"
InterruptedMarker == "Interrupted while processing"
InterruptedByUser == "Interrupted by user (KeyboardInterrupt). Resume with --task-id."
PipelineError == "pipeline error"

VARIABLES task, items, wk, runs, docs, tx, fs, job

vars == <<task, items, wk, runs, docs, tx, fs, job>>

(* ------------------------------------------------------------ task store *)

\* the item rows create_ingest_task inserts: one per path, pending, attempt 0
NewItems == [i \in Ordinals |-> [status |-> "pending", attempt |-> 0, last_error |-> NULL]]

\* the task row create_ingest_task inserts
NewTask(pm, im, es, force, out) ==
  [status |-> "pending", pipeline_mode |-> pm, input_mode |-> im,
   error_strategy |-> es, force |-> force, extract_output_dir |-> out,
   last_error |-> NULL]

\* coalesce(a, b) of SQL
Coalesce(a, b) == IF a # NULL THEN a ELSE b

\* prepare_ingest_task_run without its check of the completed status
PrepareCheckNoCompleted(row, epm, eim, eod) ==
  IF epm # NULL /\ row.pipeline_mode # epm THEN "mode_mismatch"
  ELSE IF eim # NULL /\ row.input_mode # eim THEN "input_mismatch"
  ELSE IF epm = "extract_only" /\ eod # NULL
          /\ row.extract_output_dir # NULL /\ row.extract_output_dir # eod
       THEN "output_mismatch"
  ELSE "ok"

\* prepare_ingest_task_run without its comparison of the input mode
PrepareCheckNoInputMode(row, epm, eim, eod) ==
  IF row.status = "completed" THEN "already_completed"
  ELSE IF epm # NULL /\ row.pipeline_mode # epm THEN "mode_mismatch"
  ELSE IF epm = "extract_only" /\ eod # NULL
          /\ row.extract_output_dir # NULL /\ row.extract_output_dir # eod
       THEN "output_mismatch"
  ELSE "ok"

\* the checks of prepare_ingest_task_run on the row it read: "ok" or the error raised
PrepareCheck(row, epm, eim, eod) ==
  IF row.status = "completed" THEN "already_completed"
  ELSE IF epm # NULL /\ row.pipeline_mode # epm THEN "mode_mismatch"
  ELSE IF eim # NULL /\ row.input_mode # eim THEN "input_mismatch"
  ELSE IF epm = "extract_only" /\ eod # NULL
          /\ row.extract_output_dir # NULL /\ row.extract_output_dir # eod
       THEN "output_mismatch"
  ELSE "ok"

\* the recovery of prepare_ingest_task_run, had it also reset the attempt counter
RecoverForRetryResetAttempt(its) ==
  [i \in DOMAIN its |->
     IF its[i].status \in {"running", "failed"}
     THEN [its[i] EXCEPT !.status = "pending", !.attempt = 0,
                         !.last_error = Coalesce(its[i].last_error, RecoveredMarker)]
     ELSE its[i]]

\* the recovery of prepare_ingest_task_run, had it written the marker over last_error
RecoverForRetryOverwriteError(its) ==
  [i \in DOMAIN its |->
     IF its[i].status \in {"running", "failed"}
     THEN [its[i] EXCEPT !.status = "pending", !.last_error = RecoveredMarker]
     ELSE its[i]]

\* the recovery of prepare_ingest_task_run, had it left running items alone
RecoverForRetryFailedOnly(its) ==
  [i \in DOMAIN its |->
     IF its[i].status = "failed"
     THEN [its[i] EXCEPT !.status = "pending",
                         !.last_error = Coalesce(its[i].last_error, RecoveredMarker)]
     ELSE its[i]]

\* update ingest_task_items ... where status in ('running', 'failed')  (prepare)
RecoverForRetry(its) ==
  [i \in DOMAIN its |->
     IF its[i].status \in {"running", "failed"}
     THEN [its[i] EXCEPT !.status = "pending",
                         !.last_error = Coalesce(its[i].last_error, RecoveredMarker)]
     ELSE its[i]]

\* the update of prepare, had it written the run's output directory over the stored one
StartTaskOverwritesOutDir(t, es, force, eod) ==
  [t EXCEPT !.status = "running", !.error_strategy = es, !.force = force,
            !.extract_output_dir = eod, !.last_error = NULL]

\* the update of prepare, had it also put the mode columns back to their defaults
StartTaskResetsModes(t, es, force, eod) ==
  [t EXCEPT !.status = "running", !.error_strategy = es, !.force = force,
            !.pipeline_mode = "full", !.input_mode = "pdf",
            !.extract_output_dir = Coalesce(t.extract_output_dir, eod),
            !.last_error = NULL]

\* update ingest_tasks set status = 'running', ... (prepare)
StartTask(t, es, force, eod) ==
  [t EXCEPT !.status = "running", !.error_strategy = es, !.force = force,
            !.extract_output_dir = Coalesce(t.extract_output_dir, eod),
            !.last_error = NULL]

\* the next_item sub-select of claim_next_ingest_task_item
NextItem(its) ==
  IF \E i \in DOMAIN its : its[i].status = "pending"
  THEN CHOOSE i \in DOMAIN its :
         /\ its[i].status = "pending"
         /\ \A j \in DOMAIN its : its[j].status = "pending" => i <= j
  ELSE NoItem

\* the UPDATE of claim_next_ingest_task_item, had it left the attempt counter alone
ClaimRowKeepsAttempt(row) == [row EXCEPT !.status = "running", !.last_error = NULL]

\* mark_ingest_task_item_*, had the UPDATE no "and status = 'running'"
MarkItemWhateverItsStatus(row, status, error) ==
  [row EXCEPT !.status = status, !.last_error = error]

\* the UPDATE of claim_next_ingest_task_item on the row the sub-select named
ClaimRow(row) ==
  [row EXCEPT !.status = "running", !.attempt = row.attempt + 1, !.last_error = NULL]

\* mark_ingest_task_item_completed / _failed / _skipped: where ... and status = 'running'
MarkItem(row, status, error) ==
  IF row.status = "running"
  THEN [row EXCEPT !.status = status, !.last_error = error]
  ELSE row

\* the recovery of mark_ingest_task_interrupted, had it set no last_error
RecoverInterruptedNoMarker(its) ==
  [i \in DOMAIN its |->
     IF its[i].status = "running" THEN [its[i] EXCEPT !.status = "pending"] ELSE its[i]]

\* update ingest_task_items ... where status = 'running'  (mark_ingest_task_interrupted)
RecoverInterrupted(its) ==
  [i \in DOMAIN its |->
     IF its[i].status = "running"
     THEN [its[i] EXCEPT !.status = "pending",
                         !.last_error = Coalesce(its[i].last_error, InterruptedMarker)]
     ELSE its[i]]

\* mark_ingest_task_completed_if_done, had it counted skipped items as unfinished
IsDoneNoSkipped(t, its) ==
  /\ t.status = "running"
  /\ \A i \in DOMAIN its : its[i].status = "completed"

\* mark_ingest_task_completed_if_done without its second "not exists" (failed items)
IsDoneIgnoringFailed(t, its) ==
  /\ t.status = "running"
  /\ ~ \E i \in DOMAIN its : its[i].status \in {"pending", "running"}

\* the WHERE clause of mark_ingest_task_completed_if_done
IsDone(t, its) ==
  /\ t.status = "running"
  /\ ~ \E i \in DOMAIN its : its[i].status \in {"pending", "running"}
  /\ ~ \E i \in DOMAIN its : its[i].status = "failed"

(* -------------------------------------------------------- document store *)
(* apps/ingest/store.py.  docs is the committed content of the documents,   *)
(* segments and segment_embeddings tables, by source_path: the document's   *)
(* sha256 and the counts get_document_sync_state reads.  tx is the one      *)
(* call of replace_document_content in progress: its arguments and the      *)
(* content its open transaction (Db.connect_tx, autocommit off) sees.       *)

SourcePaths == {"a.pdf", "b.pdf"}
Hashes == {"h1", "h2"}

\* the chunks argument, by the chunks' ordinals
ChunkLists == UNION {[1 .. n -> 0 .. (MaxChunks - 1)] : n \in 0 .. MaxChunks}

\* the tables before any ingest
NoDocuments == [p \in {} |-> NULL]

IdleTx ==
  [pc |-> "idle", source_path |-> NULL, sha256 |-> NULL, chunks |-> <<>>,
   embeddings |-> 0, dim_ok |-> TRUE, work |-> NoDocuments, res |-> NULL]

Min(a, b) == IF a <= b THEN a ELSE b

\* the argument checks of replace_document_content without the count comparison
ReplaceCheckNoMismatch(chunks, embeddings) ==
  IF Len(chunks) = 0 THEN "no_chunks" ELSE "ok"

\* the argument checks of replace_document_content: "ok" or the ValueError raised
ReplaceCheck(chunks, embeddings) ==
  IF Len(chunks) = 0 THEN "no_chunks"
  ELSE IF Len(chunks) # embeddings THEN "count_mismatch"
  ELSE "ok"

\* delete from documents where id = ...: segments and embeddings go by cascade
DeleteDocument(d, p) == [q \in (DOMAIN d) \ {p} |-> d[q]]

\* the insert into documents, had the table no unique index on sha256
Sha256NeverTaken(d, h) == FALSE

\* the unique index documents_sha256_idx refuses the insert
Sha256Taken(d, h) == \E q \in DOMAIN d : d[q].sha256 = h

\* unique(document_id, ordinal) refuses the segment rows
OrdinalRepeated(chunks) ==
  \E i, j \in 1 .. Len(chunks) : i # j /\ chunks[i] = chunks[j]

\* get_document_sync_state
DocumentSyncState(d, p) == IF p \in DOMAIN d THEN d[p] ELSE NULL

\* replace_document_content is entered: the argument checks, then the transaction
\* opens on the committed tables
ReplaceCall(p, h, c, n, ok) ==
  LET call == [IdleTx EXCEPT !.source_path = p, !.sha256 = h, !.chunks = c,
                             !.embeddings = n, !.dim_ok = ok]
      verdict == ReplaceCheck(c, n) IN
    IF verdict = "ok"
    THEN [call EXCEPT !.pc = "delete", !.work = docs]
    ELSE [call EXCEPT !.pc = "raised", !.res = verdict]

\* replace_document_content is called with any arguments
ReplaceCalled ==
  /\ tx.pc = "idle"
  /\ \E p \in SourcePaths, h \in Hashes, c \in ChunkLists,
        n \in 0 .. MaxChunks, ok \in BOOLEAN :
       tx' = ReplaceCall(p, h, c, n, ok)
  /\ UNCHANGED <<task, items, wk, runs, docs, fs, job>>

\* an exception inside "with db.connect_tx() as conn": the transaction is rolled back
TxRaised(error) == [tx EXCEPT !.pc = "raised", !.res = error, !.work = NoDocuments]

\* select id from documents where source_path = ...; delete the row found
TxDelete ==
  /\ tx.pc = "delete"
  /\ tx' = [tx EXCEPT !.pc = "insert_document",
                      !.work = DeleteDocument(tx.work, tx.source_path)]
  /\ UNCHANGED <<task, items, wk, runs, docs, fs, job>>

\* insert into documents on a connection of Db.connect (autocommit on): the row is
\* visible to every reader at once
TxInsertDocumentAutocommit ==
  /\ tx.pc = "insert_document"
  /\ IF Sha256Taken(tx.work, tx.sha256)
     THEN tx' = TxRaised("unique_violation") /\ docs' = docs
     ELSE LET work == (tx.source_path :>
                         [sha256 |-> tx.sha256, segment_count |-> 0,
                          embedding_count |-> 0]) @@ tx.work IN
            /\ tx' = [tx EXCEPT !.pc = "insert_segments", !.work = work]
            /\ docs' = work
  /\ UNCHANGED <<task, items, wk, runs, fs, job>>

\* insert into documents
TxInsertDocument ==
  /\ tx.pc = "insert_document"
  /\ IF Sha256Taken(tx.work, tx.sha256)
     THEN tx' = TxRaised("unique_violation")
     ELSE tx' = [tx EXCEPT !.pc = "insert_segments",
                          !.work = (tx.source_path :>
                                      [sha256 |-> tx.sha256, segment_count |-> 0,
                                       embedding_count |-> 0]) @@ tx.work]
  /\ UNCHANGED <<task, items, wk, runs, docs, fs, job>>

\* insert into segments, one row per chunk
TxInsertSegments ==
  /\ tx.pc = "insert_segments"
  /\ IF OrdinalRepeated(tx.chunks)
     THEN tx' = TxRaised("unique_violation")
     ELSE tx' = [tx EXCEPT !.pc = "insert_embeddings",
                          !.work[tx.source_path].segment_count = Len(tx.chunks)]
  /\ UNCHANGED <<task, items, wk, runs, docs, fs, job>>

\* insert into segment_embeddings, one row per zip(segment_ids, embeddings)
TxInsertEmbeddings ==
  /\ tx.pc = "insert_embeddings"
  /\ IF ~ tx.dim_ok
     THEN tx' = TxRaised("dimension_mismatch")
     ELSE tx' = [tx EXCEPT !.pc = "commit",
                          !.work[tx.source_path].embedding_count =
                             Min(Len(tx.chunks), tx.embeddings)]
  /\ UNCHANGED <<task, items, wk, runs, docs, fs, job>>

\* the with block is left by return: the transaction commits
TxCommit ==
  /\ tx.pc = "commit"
  /\ docs' = tx.work
  /\ tx' = [tx EXCEPT !.pc = "returned", !.res = "ok", !.work = NoDocuments]
  /\ UNCHANGED <<task, items, wk, runs, fs, job>>

\* the caller goes on after the return or the exception
ReplaceEnds ==
  /\ tx.pc \in {"returned", "raised"}
  /\ tx' = IdleTx
  /\ UNCHANGED <<task, items, wk, runs, docs, fs, job>>

\* the process is killed inside the transaction: the server rolls it back
TxKilled ==
  /\ tx.pc \in {"delete", "insert_document", "insert_segments", "insert_embeddings",
                "commit"}
  /\ tx' = IdleTx
  /\ UNCHANGED <<task, items, wk, runs, docs, fs, job>>

(* ------------------------------------------------------------- pipelines *)
(* apps/ingest/cli.py: ingest_pdf, ingest_chunks_jsonl, _load_chunks_from_jsonl *)
(* and _embed_and_store, with apps/ingest/extract_output.py.  fs is the file  *)
(* system: the fingerprint of each PDF's content and the lines of each        *)
(* extract output file.  job is the one pipeline call in progress.  The       *)
(* store functions are modelled as store.py writes them, on the handle        *)
(* cli.py passes them.                                                        *)

\* the fingerprint of a PDF none of whose chunks survives sanitization
BlankPdf == "h0"
PdfHashes == Hashes \cup {BlankPdf}

\* the task's --chunking-strategy, and the strategies a chunks file can name
TaskStrategy == "semantic"
Strategies == {"semantic", "recursive"}

\* INGEST_EMBED_BATCH_SIZE unset or invalid
DefaultBatchSize == 128
\* the batch sizes of the runs modelled
EmbedBatchSizes == {1, DefaultBatchSize}

\* sanitize_chunks_with_raw numbers the chunks it keeps 0, 1, ...
Numbered(n) == [i \in 1 .. n |-> i - 1]

\* _extract_chunks: the sanitized chunks of the PDF with fingerprint h
ExtractChunks(h) ==
  Numbered(IF h = BlankPdf THEN 0 ELSE IF h = "h1" THEN MaxChunks ELSE 1)

\* no PDF and no output file; gone holds the items whose source file does not exist
NoFiles == [pdf |-> NoDocuments, out |-> NoDocuments, gone |-> {}]

\* _safe_stem
SafeStem(p) == IF p = "a.pdf" THEN "a" ELSE "b"

\* build_extract_output_path: <out_dir>/<stem>.<strategy>.chunks.jsonl
OutputPath(p) == <<SafeStem(p), TaskStrategy>>

\* is_extract_output_up_to_date: the file exists and its first line carries the hash
IsExtractOutputUpToDate(f, o, h) ==
  /\ o \in DOMAIN f.out
  /\ Len(f.out[o]) > 0
  /\ f.out[o][1] = h

\* is_document_up_to_date with the fingerprint comparison turned round
IsDocumentUpToDateOtherSha(d, p, h) ==
  /\ p \in DOMAIN d
  /\ LET state == DocumentSyncState(d, p) IN
       /\ state.sha256 # h
       /\ state.segment_count > 0
       /\ state.segment_count = state.embedding_count

\* is_document_up_to_date with only the fingerprint compared
IsDocumentUpToDateShaOnly(d, p, h) ==
  /\ p \in DOMAIN d
  /\ DocumentSyncState(d, p).sha256 = h

\* is_document_up_to_date
IsDocumentUpToDate(d, p, h) ==
  /\ p \in DOMAIN d
  /\ LET state == DocumentSyncState(d, p) IN
       /\ state.sha256 = h
       /\ state.segment_count > 0
       /\ state.segment_count = state.embedding_count

\* the records of a chunks file.  meta is the record's source_path, source_sha256
\* and chunking_strategy as written in the line; a line that does not parse or
\* lacks metadata or an ordinal is not valid; keep tells whether sanitize_chunks
\* keeps the content
PaddedPath == " a.pdf"
Metas == (SourcePaths \cup {PaddedPath}) \X Hashes \X Strategies
InvalidRecord == [valid |-> FALSE, meta |-> <<"a.pdf", "h1", "semantic">>, keep |-> FALSE]
Records ==
  {[valid |-> TRUE, meta |-> m, keep |-> k] : m \in Metas, k \in BOOLEAN}
    \cup {InvalidRecord}
ChunkFiles == UNION {[1 .. n -> Records] : n \in 0 .. MaxChunks}

\* str(value).strip()
Strip(v) == IF v = PaddedPath THEN "a.pdf" ELSE v

\* row_source_path, row_sha, row_strategy
RowMeta(rec) == <<Strip(rec.meta[1]), Strip(rec.meta[2]), Strip(rec.meta[3])>>

\* chunks files as write_extract_output leaves them: one metadata, the task's strategy
WrittenChunkFiles ==
  {recs \in ChunkFiles :
     \A i \in 1 .. Len(recs) :
       /\ recs[i].valid /\ recs[i].meta = recs[1].meta
       /\ recs[i].meta[1] # PaddedPath /\ recs[i].meta[3] = TaskStrategy}

\* the first line _load_chunks_from_jsonl raises on, 0 if none
FirstBadRecord(recs) ==
  LET bad == {i \in 1 .. Len(recs) : ~ recs[i].valid \/ RowMeta(recs[i]) # RowMeta(recs[1])} IN
    IF bad = {} THEN 0 ELSE CHOOSE i \in bad : \A j \in bad : i <= j

RECURSIVE Kept(_)
Kept(recs) ==
  IF Len(recs) = 0 THEN 0
  ELSE (IF recs[1].keep THEN 1 ELSE 0) + Kept(Tail(recs))

NoLoad ==
  [error |-> NULL, source_path |-> NULL, sha256 |-> NULL, strategy |-> NULL,
   chunks |-> <<>>]

\* _load_chunks_from_jsonl without the comparison of each record with the first
LoadChunksFirstRecordOnly(recs) ==
  IF \E i \in 1 .. Len(recs) : ~ recs[i].valid
  THEN [NoLoad EXCEPT !.error = "invalid_record"]
  ELSE IF Len(recs) = 0
  THEN [NoLoad EXCEPT !.error = "empty_file"]
  ELSE [NoLoad EXCEPT !.source_path = RowMeta(recs[1])[1],
                      !.sha256 = RowMeta(recs[1])[2],
                      !.strategy = RowMeta(recs[1])[3],
                      !.chunks = Numbered(Kept(recs))]

\* _load_chunks_from_jsonl: the error raised, or the metadata and the sanitized chunks
LoadChunks(recs) ==
  LET bad == FirstBadRecord(recs) IN
    IF bad # 0
    THEN [NoLoad EXCEPT !.error = IF recs[bad].valid THEN "inconsistent_metadata"
                                  ELSE "invalid_record"]
    ELSE IF Len(recs) = 0
    THEN [NoLoad EXCEPT !.error = "empty_file"]
    ELSE [NoLoad EXCEPT !.source_path = RowMeta(recs[1])[1],
                        !.sha256 = RowMeta(recs[1])[2],
                        !.strategy = RowMeta(recs[1])[3],
                        !.chunks = Numbered(Kept(recs))]

IdleJob ==
  [pc |-> "idle", input_mode |-> NULL, pipeline_mode |-> NULL, force |-> FALSE,
   file |-> NULL, records |-> <<>>, source_path |-> NULL, sha256 |-> NULL,
   chunks |-> <<>>, batch_size |-> 0, parts |-> <<>>, res |-> NULL]

JobReturned(res) == [job EXCEPT !.pc = "returned", !.res = res]
JobRaised(error) == [job EXCEPT !.pc = "raised", !.res = error]

\* ingest_pdf up to its up-to-date test: hash the file, then ask the output file
\* (extract_only) or the document store (full) unless force is set
PdfCalled ==
  /\ job.pc = "idle" /\ tx.pc = "idle"
  /\ \E p \in DOMAIN fs.pdf, pm \in PipelineMode, force \in BOOLEAN :
       LET h == fs.pdf[p]
           call == [IdleJob EXCEPT !.input_mode = "pdf", !.pipeline_mode = pm,
                                   !.force = force, !.file = p, !.source_path = p,
                                   !.sha256 = h]
           up_to_date == IF pm = "extract_only"
                         THEN IsExtractOutputUpToDate(fs, OutputPath(p), h)
                         ELSE IsDocumentUpToDate(docs, p, h) IN
         job' = IF ~ force /\ up_to_date
                THEN [call EXCEPT !.pc = "returned", !.res = "up_to_date"]
                ELSE [call EXCEPT !.pc = "extract"]
  /\ UNCHANGED <<task, items, wk, runs, docs, tx, fs>>

\* _extract_chunks raises
ExtractRaised ==
  /\ job.pc = "extract"
  /\ job' = JobRaised("extract_failed")
  /\ UNCHANGED <<task, items, wk, runs, docs, tx, fs>>

\* _extract_chunks returns: no chunk raises; extract_only opens the output file
\* for writing, which empties it; full goes on to _embed_and_store
PdfExtracted ==
  /\ job.pc = "extract"
  /\ LET chunks == ExtractChunks(job.sha256) IN
       IF Len(chunks) = 0
       THEN job' = JobRaised("no_chunks") /\ fs' = fs
       ELSE IF job.pipeline_mode = "extract_only"
       THEN /\ job' = [job EXCEPT !.pc = "write", !.chunks = chunks]
            /\ fs' = [fs EXCEPT !.out = (OutputPath(job.file) :> <<>>) @@ fs.out]
       ELSE /\ \E size \in EmbedBatchSizes :
                 job' = [job EXCEPT !.pc = "embed", !.chunks = chunks,
                                    !.batch_size = size]
            /\ fs' = fs
  /\ UNCHANGED <<task, items, wk, runs, docs, tx>>

\* write_extract_output: one more line reaches the file
WriteLine ==
  /\ job.pc = "write"
  /\ Len(fs.out[OutputPath(job.file)]) < Len(job.chunks)
  /\ fs' = [fs EXCEPT !.out[OutputPath(job.file)] = Append(@, job.sha256)]
  /\ UNCHANGED <<task, items, wk, runs, docs, tx, job>>

\* write_extract_output returns after the last line; ingest_pdf returns "extracted"
WriteReturns ==
  /\ job.pc = "write"
  /\ Len(fs.out[OutputPath(job.file)]) = Len(job.chunks)
  /\ job' = JobReturned("extracted")
  /\ UNCHANGED <<task, items, wk, runs, docs, tx, fs>>

\* the item of a chunks task: _run_ingest_task refuses chunks input outside full
\* mode; else ingest_chunks_jsonl opens the file
ChunksOpened(files) ==
  /\ job.pc = "idle" /\ tx.pc = "idle"
  /\ \E recs \in files, pm \in PipelineMode, force \in BOOLEAN :
       LET call == [IdleJob EXCEPT !.input_mode = "chunks", !.pipeline_mode = pm,
                                   !.force = force, !.file = "chunks.jsonl"] IN
         job' = IF pm # "full"
                THEN [call EXCEPT !.pc = "raised", !.res = "chunks_only_full"]
                ELSE [call EXCEPT !.pc = "load", !.records = recs]
  /\ UNCHANGED <<task, items, wk, runs, docs, tx, fs>>

\* ingest_chunks_jsonl up to _embed_and_store: load, compare the strategy, ask the
\* document store unless force is set, refuse an empty chunk list
ChunksLoaded ==
  /\ job.pc = "load"
  /\ LET load == LoadChunks(job.records)
         read == [job EXCEPT !.records = <<>>, !.source_path = load.source_path,
                             !.sha256 = load.sha256, !.chunks = load.chunks] IN
       IF load.error # NULL
       THEN job' = [read EXCEPT !.pc = "raised", !.res = load.error]
       ELSE IF load.strategy # TaskStrategy
       THEN job' = [read EXCEPT !.pc = "raised", !.res = "strategy_mismatch"]
       ELSE IF ~ job.force /\ IsDocumentUpToDate(docs, load.source_path, load.sha256)
       THEN job' = [read EXCEPT !.pc = "returned", !.res = "up_to_date"]
       ELSE IF Len(load.chunks) = 0
       THEN job' = [read EXCEPT !.pc = "raised", !.res = "no_chunks"]
       ELSE \E size \in EmbedBatchSizes :
              job' = [read EXCEPT !.pc = "embed", !.batch_size = size]
  /\ UNCHANGED <<task, items, wk, runs, docs, tx, fs>>

RECURSIVE Sum(_)
Sum(s) == IF Len(s) = 0 THEN 0 ELSE s[1] + Sum(Tail(s))

\* the chunks the batches so far have covered
Sent(j) == Min(Len(j.chunks), Len(j.parts) * j.batch_size)

\* the size of batch k
BatchSize(j, k) == Min(j.batch_size, Len(j.chunks) - (k - 1) * j.batch_size)

\* _embed_and_store: lm.embeddings returns some vectors for the next batch, or raises
EmbedBatch ==
  /\ job.pc = "embed"
  /\ Sent(job) < Len(job.chunks)
  /\ \/ \E r \in 0 .. MaxChunks : job' = [job EXCEPT !.parts = Append(@, r)]
     \/ job' = JobRaised("embed_failed")
  /\ UNCHANGED <<task, items, wk, runs, docs, tx, fs>>

\* the comparison after the loop: len(embeddings) != len(chunks) raises
EmbedCheck(chunks, parts) == Sum(parts) = Len(chunks)

\* _embed_and_store after the last batch: the count test, then replace_document_content
EmbedDone ==
  /\ job.pc = "embed"
  /\ Sent(job) = Len(job.chunks)
  /\ IF ~ EmbedCheck(job.chunks, job.parts)
     THEN job' = JobRaised("count_mismatch") /\ tx' = tx
     ELSE /\ job' = [job EXCEPT !.pc = "replace"]
          /\ \E ok \in BOOLEAN :
               tx' = ReplaceCall(job.source_path, job.sha256, job.chunks,
                                 Sum(job.parts), ok)
  /\ UNCHANGED <<task, items, wk, runs, docs, fs>>

\* replace_document_content has returned or raised: "indexed", or the exception
\* goes up
ReplaceDone ==
  /\ job.pc = "replace"
  /\ tx.pc \in {"returned", "raised"}
  /\ job' = IF tx.pc = "returned" THEN JobReturned("indexed") ELSE JobRaised(tx.res)
  /\ tx' = IdleTx
  /\ UNCHANGED <<task, items, wk, runs, docs, fs>>

\* the loop of _run_ingest_task marks the item and goes on
JobEnds ==
  /\ job.pc \in {"returned", "raised"}
  /\ job' = IdleJob
  /\ UNCHANGED <<task, items, wk, runs, docs, tx, fs>>

\* KeyboardInterrupt or a kill inside the pipeline: an open transaction is rolled
\* back, an open output file is left with the lines written so far
JobKilled ==
  /\ job.pc \notin {"idle", "returned", "raised"}
  /\ job' = IdleJob
  /\ tx' = IdleTx
  /\ UNCHANGED <<task, items, wk, runs, docs, fs>>

\* between two calls the content of a PDF is replaced
FileChanges ==
  /\ job.pc = "idle"
  /\ \E p \in DOMAIN fs.pdf, h \in PdfHashes :
       /\ h # fs.pdf[p]
       /\ fs' = [fs EXCEPT !.pdf[p] = h]
  /\ UNCHANGED <<task, items, wk, runs, docs, tx, job>>

(* --------------------------------------------------------------- workers *)

\* inside asyncio.run(_run_ingest_task(...)), where KeyboardInterrupt is handled
InRun == {"loop", "claim", "process", "fail_task", "fail_missing", "drained", "report"}
\* a running process; "exit" is the process about to end with status wk[w].res
Alive == {"prep_items", "prep_task", "intr_task", "exit"} \cup InRun

\* the parameters of a call of prepare_ingest_task_run
Request(es, force, epm, eim, eod) ==
  [es |-> es, force |-> force, epm |-> epm, eim |-> eim, eod |-> eod]

NoRequest == Request("fail", FALSE, NULL, NULL, NULL)

\* a worker that is not running (not started, or ended), and a fresh process's locals
IdleWorker ==
  [pc |-> "idle", item |-> NoItem, sel |-> NoItem, req |-> NoRequest, res |-> NULL]

\* the calls of prepare_ingest_task_run main() makes on task row t: a resume passes no
\* expected mode; the run that created the task (the first one) passes the modes it
\* created it with; the output directory is the stored one
CliRequests(t, first, forces) ==
  {Request(es, force, epm, eim, eod) :
     es \in RunStrategy, force \in forces,
     epm \in {NULL} \cup (IF first THEN {t.pipeline_mode} ELSE {}),
     eim \in {NULL} \cup (IF first THEN {t.input_mode} ELSE {}),
     eod \in {IF t.pipeline_mode = "extract_only"
              THEN Coalesce(t.extract_output_dir, DefaultOutDir) ELSE NULL}}

\* every call of prepare_ingest_task_run
ApiRequests ==
  {Request(es, force, epm, eim, eod) :
     es \in RunStrategy, force \in BOOLEAN, epm \in PipelineMode \cup {NULL},
     eim \in InputMode \cup {NULL}, eod \in OutDirs \cup {NULL}}

\* the store after create_ingest_task, before any run
TaskCreated(modes, forces) ==
  /\ \E mp \in modes, es \in RunStrategy, force \in forces :
       task = NewTask(mp[1], mp[2], es, force,
                      IF mp[1] = "extract_only" THEN DefaultOutDir ELSE NULL)
  /\ items = NewItems
  /\ wk = [w \in Workers |-> IdleWorker]
  /\ runs = 0

\* the task store after create_ingest_task, an empty document store, no files
InitOf(modes, forces) ==
  /\ TaskCreated(modes, forces)
  /\ docs = NoDocuments
  /\ tx = IdleTx
  /\ fs = NoFiles
  /\ job = IdleJob

\* prepare_ingest_task_run, first statement: read the task row and check the request
PrepareReadOf(w, requests) ==
  /\ wk[w].pc = "idle"
  /\ runs < MaxRuns
  /\ runs' = runs + 1
  /\ \E r \in requests :
       LET verdict == PrepareCheck(task, r.epm, r.eim, r.eod) IN
         IF verdict = "ok"
         THEN wk' = [wk EXCEPT ![w] = [IdleWorker EXCEPT !.pc = "prep_items", !.req = r]]
         ELSE wk' = [wk EXCEPT ![w] = [IdleWorker EXCEPT !.pc = "exit", !.req = r,
                                                          !.res = verdict]]
  /\ UNCHANGED <<task, items, docs, tx, fs, job>>

\* prepare_ingest_task_run, second statement: recover running and failed items
PrepareRecover(w) ==
  /\ wk[w].pc = "prep_items"
  /\ items' = RecoverForRetry(items)
  /\ wk' = [wk EXCEPT ![w].pc = "prep_task"]
  /\ UNCHANGED <<task, runs, docs, tx, fs, job>>

\* what _run_ingest_task still reads of the request: the run's error strategy
RunArgs(r) == [NoRequest EXCEPT !.es = r.es]

\* prepare_ingest_task_run, third statement: set the task running
PrepareStart(w) ==
  /\ wk[w].pc = "prep_task"
  /\ task' = StartTask(task, wk[w].req.es, wk[w].req.force, wk[w].req.eod)
  /\ wk' = [wk EXCEPT ![w].pc = "loop", ![w].req = RunArgs(wk[w].req)]
  /\ UNCHANGED <<items, runs, docs, tx, fs, job>>

\* claim_next_ingest_task_item: the sub-select reads the statement's snapshot
ClaimSelect(w) ==
  /\ wk[w].pc = "loop"
  /\ wk' = [wk EXCEPT ![w].pc = "claim", ![w].sel = NextItem(items)]
  /\ UNCHANGED <<task, items, runs, docs, tx, fs, job>>

\* claim_next_ingest_task_item: the UPDATE ... where it.id = next_item.id returning it.*;
\* the loop variable item holds the last claimed item until this assignment
ClaimUpdate(w) ==
  /\ wk[w].pc = "claim"
  /\ IF wk[w].sel = NoItem
     THEN /\ wk' = [wk EXCEPT ![w].pc = "drained", ![w].item = NoItem]
          /\ UNCHANGED items
     ELSE /\ items' = [items EXCEPT ![wk[w].sel] = ClaimRow(items[wk[w].sel])]
          /\ wk' = [wk EXCEPT ![w].pc = "process", ![w].item = wk[w].sel,
                              ![w].sel = NoItem]
  /\ UNCHANGED <<task, runs, docs, tx, fs, job>>

\* the source file is there and the pipeline returned: mark_ingest_task_item_completed
ItemCompleted(w) ==
  /\ wk[w].pc = "process"
  /\ wk[w].item \notin fs.gone
  /\ items' = [items EXCEPT ![wk[w].item] = MarkItem(items[wk[w].item], "completed", NULL)]
  /\ wk' = [wk EXCEPT ![w].pc = "loop"]
  /\ UNCHANGED <<task, runs, docs, tx, fs, job>>

\* the except branch, had it gone on with the loop after marking the item failed
ItemRaisedContinues(w) ==
  /\ wk[w].pc = "process"
  /\ wk[w].item \notin fs.gone
  /\ items' = [items EXCEPT ![wk[w].item] =
                 MarkItem(items[wk[w].item],
                          IF wk[w].req.es = "skip" THEN "skipped" ELSE "failed",
                          PipelineError)]
  /\ wk' = [wk EXCEPT ![w].pc = "loop"]
  /\ UNCHANGED <<task, runs, docs, tx, fs, job>>

\* the except branch, had it ignored the run's error strategy
ItemRaisedAlwaysFails(w) ==
  /\ wk[w].pc = "process"
  /\ wk[w].item \notin fs.gone
  /\ items' = [items EXCEPT ![wk[w].item] =
                 MarkItem(items[wk[w].item], "failed", PipelineError)]
  /\ wk' = [wk EXCEPT ![w].pc = "fail_task"]
  /\ UNCHANGED <<task, runs, docs, tx, fs, job>>

\* the pipeline raised: mark the item skipped or failed, by the run's error strategy
ItemRaised(w) ==
  /\ wk[w].pc = "process"
  /\ wk[w].item \notin fs.gone
  /\ IF wk[w].req.es = "skip"
     THEN /\ items' = [items EXCEPT ![wk[w].item] =
                         MarkItem(items[wk[w].item], "skipped", PipelineError)]
          /\ wk' = [wk EXCEPT ![w].pc = "loop"]
     ELSE /\ items' = [items EXCEPT ![wk[w].item] =
                         MarkItem(items[wk[w].item], "failed", PipelineError)]
          /\ wk' = [wk EXCEPT ![w].pc = "fail_task"]
  /\ UNCHANGED <<task, runs, docs, tx, fs, job>>

\* mark_ingest_task_failed, then the exception leaves the run: SystemExit(message)
TaskFailed(w) ==
  /\ wk[w].pc = "fail_task"
  /\ task' = [task EXCEPT !.status = "failed", !.last_error = PipelineError]
  /\ wk' = [wk EXCEPT ![w] = [IdleWorker EXCEPT !.pc = "exit", !.res = "failed"]]
  /\ UNCHANGED <<items, runs, docs, tx, fs, job>>

\* f"{kind} not found: {source_file}"
NotFoundError(im) == IF im = "pdf" THEN "PDF not found" ELSE "Chunks file not found"

\* the branch for a missing source file, had it skipped whatever error_strategy says
ItemNotFoundAlwaysSkips(w) ==
  /\ wk[w].pc = "process"
  /\ wk[w].item \in fs.gone
  /\ items' = [items EXCEPT ![wk[w].item] =
                 MarkItem(items[wk[w].item], "skipped", NotFoundError(task.input_mode))]
  /\ wk' = [wk EXCEPT ![w].pc = "loop"]
  /\ UNCHANGED <<task, runs, docs, tx, fs, job>>

\* source_file.is_file() is false: skip marks the item skipped and continues;
\* fail marks the item failed and goes on to fail the task
ItemNotFound(w) ==
  /\ wk[w].pc = "process"
  /\ wk[w].item \in fs.gone
  /\ IF wk[w].req.es = "skip"
     THEN /\ items' = [items EXCEPT ![wk[w].item] =
                         MarkItem(items[wk[w].item], "skipped",
                                  NotFoundError(task.input_mode))]
          /\ wk' = [wk EXCEPT ![w].pc = "loop"]
     ELSE /\ items' = [items EXCEPT ![wk[w].item] =
                         MarkItem(items[wk[w].item], "failed",
                                  NotFoundError(task.input_mode))]
          /\ wk' = [wk EXCEPT ![w].pc = "fail_missing"]
  /\ UNCHANGED <<task, runs, docs, tx, fs, job>>

\* mark_ingest_task_failed with the same error, then RuntimeError(error) leaves the
\* run: SystemExit(message)
TaskFailedNotFound(w) ==
  /\ wk[w].pc = "fail_missing"
  /\ task' = [task EXCEPT !.status = "failed",
                          !.last_error = NotFoundError(task.input_mode)]
  /\ wk' = [wk EXCEPT ![w] = [IdleWorker EXCEPT !.pc = "exit", !.res = "failed"]]
  /\ UNCHANGED <<items, runs, docs, tx, fs, job>>

\* mark_ingest_task_completed_if_done, after the claim returned none
CompleteIfDone(w) ==
  /\ wk[w].pc = "drained"
  /\ IF IsDone(task, items)
     THEN /\ task' = [task EXCEPT !.status = "completed", !.last_error = NULL]
          /\ wk' = [wk EXCEPT ![w].pc = "report", ![w].res = "true"]
     ELSE /\ UNCHANGED task
          /\ wk' = [wk EXCEPT ![w].pc = "report", ![w].res = "false"]
  /\ UNCHANGED <<items, runs, docs, tx, fs, job>>

\* the task_done line is printed and the run returns
RunReturns(w) ==
  /\ wk[w].pc = "report"
  /\ wk' = [wk EXCEPT ![w] = [IdleWorker EXCEPT !.pc = "exit", !.res = "0"]]
  /\ UNCHANGED <<task, items, runs, docs, tx, fs, job>>

\* KeyboardInterrupt inside the run; mark_ingest_task_interrupted, first statement
Interrupt(w) ==
  /\ wk[w].pc \in InRun
  /\ items' = RecoverInterrupted(items)
  /\ wk' = [wk EXCEPT ![w] = [IdleWorker EXCEPT !.pc = "intr_task"]]
  /\ UNCHANGED <<task, runs, docs, tx, fs, job>>

\* mark_ingest_task_interrupted, second statement, then SystemExit(130)
InterruptTask(w) ==
  /\ wk[w].pc = "intr_task"
  /\ task' = [task EXCEPT !.status = "interrupted", !.last_error = InterruptedByUser]
  /\ wk' = [wk EXCEPT ![w] = [IdleWorker EXCEPT !.pc = "exit", !.res = "130"]]
  /\ UNCHANGED <<items, runs, docs, tx, fs, job>>

\* the process ends: with its exit status, or killed with no handler run
ProcessEnds(w) ==
  /\ wk[w].pc \in Alive
  /\ wk' = [wk EXCEPT ![w] = IdleWorker]
  /\ UNCHANGED <<task, items, runs, docs, tx, fs, job>>

\* the runs main() starts
PrepareRead(w) == PrepareReadOf(w, CliRequests(task, runs = 0, {FALSE}))

\* any caller of the task store
PrepareReadAny(w) == PrepareReadOf(w, ApiRequests)

RunStep(w) ==
  \/ PrepareRecover(w)
  \/ PrepareStart(w)
  \/ ClaimSelect(w)
  \/ ClaimUpdate(w)
  \/ ItemCompleted(w)
  \/ ItemRaised(w)
  \/ TaskFailed(w)
  \/ CompleteIfDone(w)
  \/ RunReturns(w)
  \/ Interrupt(w)
  \/ InterruptTask(w)
  \/ ProcessEnds(w)

(* Concurrent workers started by main() on one task, created with --mode pdf_full. *)
(* The task store only stores and compares force and the mode pair; SpecApi        *)
(* varies them.                                                                    *)
Init == InitOf({<<"full", "pdf">>}, {FALSE})

Next == \E w \in Workers : PrepareRead(w) \/ RunStep(w)

Spec == Init /\ [][Next]_vars

(* One caller at a time, every request of prepare_ingest_task_run, every task. *)
InitApi == InitOf(ModePairs, BOOLEAN)

NextApi == \E w \in {"w1"} : PrepareReadAny(w) \/ RunStep(w)

SpecApi == InitApi /\ [][NextApi]_vars

\* a run of main() with --on-error skip
PrepareReadSkip(w) ==
  PrepareReadOf(w, {r \in CliRequests(task, runs = 0, BOOLEAN) : r.es = "skip"})

\* the process ends with the exit status it reached
ProcessExits(w) == wk[w].pc = "exit" /\ ProcessEnds(w)

\* the steps of a run whose process nothing interrupts; pipelines return or raise
RunsOn(w) ==
  \/ PrepareRecover(w)
  \/ PrepareStart(w)
  \/ ClaimSelect(w)
  \/ ClaimUpdate(w)
  \/ ItemCompleted(w)
  \/ ItemRaised(w)
  \/ CompleteIfDone(w)
  \/ RunReturns(w)
  \/ ProcessExits(w)

(* One worker, runs with --on-error skip that nothing interrupts.  A process that *)
(* is not interrupted executes its next statement: weak fairness of its steps.    *)
NextSkip == \E w \in {"w1"} : PrepareReadSkip(w) \/ RunsOn(w)

SpecSkip == InitApi /\ [][NextSkip]_vars /\ WF_vars(\E w \in {"w1"} : RunsOn(w))

\* KeyboardInterrupt in a run that a resume can still follow
InterruptResumed(w) == runs < MaxRuns /\ Interrupt(w)

\* the process is killed in a run that a resume can still follow
KilledResumed(w) == runs < MaxRuns /\ wk[w].pc # "exit" /\ ProcessEnds(w)

\* the steps of a process whose pipelines all return
RunsOnSucceeding(w) ==
  \/ PrepareRecover(w)
  \/ PrepareStart(w)
  \/ ClaimSelect(w)
  \/ ClaimUpdate(w)
  \/ ItemCompleted(w)
  \/ CompleteIfDone(w)
  \/ RunReturns(w)
  \/ InterruptTask(w)
  \/ ProcessExits(w)

(* One worker at a time, pipelines that succeed, and interruptions and kills each *)
(* followed by a resume: the last run the bound allows is not interrupted.  The   *)
(* process executes its next statement and the operator starts the next run:      *)
(* weak fairness of both.                                                         *)
NextResume ==
  \E w \in {"w1"} :
    PrepareRead(w) \/ RunsOnSucceeding(w) \/ InterruptResumed(w) \/ KilledResumed(w)

SpecResume ==
  InitApi /\ [][NextResume]_vars
          /\ WF_vars(\E w \in {"w1"} : PrepareRead(w) \/ RunsOnSucceeding(w))

(* One worker started by main() on a task some of whose source files are gone. *)
InitMissing ==
  /\ TaskCreated(ModePairs, {FALSE})
  /\ docs = NoDocuments
  /\ tx = IdleTx
  /\ \E gone \in SUBSET Ordinals : fs = [NoFiles EXCEPT !.gone = gone]
  /\ job = IdleJob

NextMissing ==
  \E w \in {"w1"} :
    \/ PrepareRead(w)
    \/ RunStep(w)
    \/ ItemNotFound(w)
    \/ TaskFailedNotFound(w)

SpecMissing == InitMissing /\ [][NextMissing]_vars

(* create_ingest_task called with any pipeline mode and input mode, then one
   worker with every request. *)
InitAnyTask == InitOf(PipelineMode \X InputMode, BOOLEAN)

SpecAnyTask == InitAnyTask /\ [][NextApi]_vars

(* Calls of replace_document_content, one at a time, on a store that starts empty. *)
NextStore ==
  \/ ReplaceCalled
  \/ TxDelete
  \/ TxInsertDocument
  \/ TxInsertSegments
  \/ TxInsertEmbeddings
  \/ TxCommit
  \/ ReplaceEnds
  \/ TxKilled

SpecStore == Init /\ [][NextStore]_vars

(* Item pipelines, one call at a time, over PDFs of any content and a document
   store that is empty or holds a row left partial by an earlier version. *)
LegacyStores ==
  {NoDocuments,
   "a.pdf" :> [sha256 |-> "h1", segment_count |-> 1, embedding_count |-> 0]}

InitPipe ==
  /\ TaskCreated({<<"full", "pdf">>}, {FALSE})
  /\ docs \in LegacyStores
  /\ tx = IdleTx
  /\ \E pdf \in [SourcePaths -> PdfHashes] : fs = [NoFiles EXCEPT !.pdf = pdf]
  /\ job = IdleJob

\* the steps of _embed_and_store and of the replace it calls
EmbedAndStore ==
  \/ EmbedBatch
  \/ EmbedDone
  \/ TxDelete
  \/ TxInsertDocument
  \/ TxInsertSegments
  \/ TxInsertEmbeddings
  \/ TxCommit
  \/ ReplaceDone

NextPipe ==
  \/ PdfCalled
  \/ ExtractRaised
  \/ PdfExtracted
  \/ WriteLine
  \/ WriteReturns
  \/ EmbedAndStore
  \/ JobEnds
  \/ JobKilled
  \/ FileChanges

SpecPipe == InitPipe /\ [][NextPipe]_vars

(* The chunks pipeline on chunks files of any content. *)
NextChunks ==
  \/ ChunksOpened(ChunkFiles)
  \/ ChunksLoaded
  \/ EmbedAndStore
  \/ JobEnds
  \/ JobKilled

SpecChunks == Init /\ [][NextChunks]_vars

(* ------------------------------------------------------------- creation *)
(* A fresh run of main(): discovery, create_ingest_task, then the first     *)
(* prepare.  Db.connect() is autocommit, so the insert of the task row and  *)
(* the insert of the item rows are two committed statements.  task is       *)
(* AbsentTask while no row is stored; items is keyed by ordinal, the        *)
(* unique(task_id, ordinal) key, and each row carries its source_path.      *)

\* no row in ingest_tasks
AbsentTask == [NewTask(NULL, NULL, NULL, FALSE, NULL) EXCEPT !.status = "absent"]

\* no row in ingest_task_items
NoItems == [i \in {} |-> NULL]

\* sorted(): the order of the paths
PathOrder == <<"a.pdf", "b.pdf">>

\* _collect_pdf_files / _collect_chunk_files: the files of the directory, sorted
CollectFiles(files) == SelectSeq(PathOrder, LAMBDA p : p \in files)

\* the item rows of create_ingest_task, had enumerate run over the reversed list
ItemRowsReversed(paths) ==
  [i \in 0 .. (Len(paths) - 1) |->
     [status |-> "pending", attempt |-> 0, last_error |-> NULL,
      source_path |-> paths[Len(paths) - i]]]

\* item_rows of create_ingest_task: enumerate(source_paths), status pending, and the
\* column default attempt 0
ItemRows(paths) ==
  [i \in 0 .. (Len(paths) - 1) |->
     [status |-> "pending", attempt |-> 0, last_error |-> NULL,
      source_path |-> paths[i + 1]]]

\* the first m rows of rows
FirstRows(rows, m) == [i \in 0 .. (m - 1) |-> rows[i]]

\* main(), fresh run: the directory has files; create_ingest_task inserts the task row
CreateTask(w) ==
  /\ wk[w].pc = "idle"
  /\ runs < MaxRuns
  /\ runs' = runs + 1
  /\ task = AbsentTask
  /\ DOMAIN fs.pdf # {}
  /\ \E mp \in ModePairs, es \in RunStrategy, force \in BOOLEAN :
       LET out == IF mp[1] = "extract_only" THEN DefaultOutDir ELSE NULL IN
         /\ task' = NewTask(mp[1], mp[2], es, force, out)
         /\ wk' = [wk EXCEPT ![w] = [IdleWorker EXCEPT
                                       !.pc = "create_items",
                                       !.req = Request(es, force, mp[1], mp[2], out)]]
  /\ UNCHANGED <<items, docs, tx, fs, job>>

\* create_ingest_task, execute_many: the rows of one executemany are stored by one
\* statement or one by one, as the driver sends them
CreateItems(w) ==
  /\ wk[w].pc = "create_items"
  /\ LET rows == ItemRows(CollectFiles(DOMAIN fs.pdf))
         n == Cardinality(DOMAIN rows)
         k == Cardinality(DOMAIN items) IN
       \E m \in (k + 1) .. n :
         /\ items' = FirstRows(rows, m)
         /\ wk' = [wk EXCEPT ![w].pc = IF m = n THEN "create_read" ELSE "create_items"]
  /\ UNCHANGED <<task, runs, docs, tx, fs, job>>

\* create_ingest_task reads the task row back and returns; task_created is printed
CreateReturns(w) ==
  /\ wk[w].pc = "create_read"
  /\ wk' = [wk EXCEPT ![w].pc = "created"]
  /\ UNCHANGED <<task, items, runs, docs, tx, fs, job>>

\* the prepare_ingest_task_run of the run that created the task
PrepareCreated(w) ==
  /\ wk[w].pc = "created"
  /\ LET r == wk[w].req
         verdict == PrepareCheck(task, r.epm, r.eim, r.eod) IN
       IF verdict = "ok"
       THEN wk' = [wk EXCEPT ![w].pc = "prep_items"]
       ELSE wk' = [wk EXCEPT ![w].pc = "exit", ![w].res = verdict]
  /\ UNCHANGED <<task, items, runs, docs, tx, fs, job>>

\* the process is killed inside or right after create_ingest_task
CreateKilled(w) ==
  /\ wk[w].pc \in {"create_items", "create_read", "created"}
  /\ wk' = [wk EXCEPT ![w] = IdleWorker]
  /\ UNCHANGED <<task, items, runs, docs, tx, fs, job>>

\* main(), --mode resume on a task id that is stored
ResumeRead(w) ==
  /\ task # AbsentTask
  /\ PrepareReadOf(w, CliRequests(task, FALSE, BOOLEAN))

\* main(), --mode resume on a task id that is not stored: SystemExit
ResumeNotFound(w) ==
  /\ wk[w].pc = "idle"
  /\ runs < MaxRuns
  /\ runs' = runs + 1
  /\ task = AbsentTask
  /\ wk' = [wk EXCEPT ![w] = [IdleWorker EXCEPT !.pc = "exit", !.res = "not_found"]]
  /\ UNCHANGED <<task, items, docs, tx, fs, job>>

(* A directory of one or two files, no task yet; one process at a time creates *)
(* the task, runs it, is killed, resumes.                                      *)
InitCreate ==
  /\ task = AbsentTask
  /\ items = NoItems
  /\ wk = [w \in Workers |-> IdleWorker]
  /\ runs = 0
  /\ docs = NoDocuments
  /\ tx = IdleTx
  /\ \E files \in (SUBSET SourcePaths) \ {{}} :
       fs = [NoFiles EXCEPT !.pdf = [p \in files |-> "h1"]]
  /\ job = IdleJob

NextCreate ==
  \E w \in {"w1"} :
    \/ CreateTask(w)
    \/ CreateItems(w)
    \/ CreateReturns(w)
    \/ PrepareCreated(w)
    \/ CreateKilled(w)
    \/ ResumeRead(w)
    \/ ResumeNotFound(w)
    \/ RunStep(w)

SpecCreate == InitCreate /\ [][NextCreate]_vars

(* ------------------------------------------------------------ heartbeats *)
(* touch_ingest_task and touch_ingest_task_item.  Nothing reads heartbeat_at, *)
(* so the column is kept only here, as these two statements write it: the     *)
(* rows get a heartbeat_at field holding the reading of a clock that never    *)
(* runs backwards: now() is at least every reading stored so far.            *)

\* the readings of the clock
MaxClock == 1

\* a row with its heartbeat_at column
WithHeartbeat(row, at) == ("heartbeat_at" :> at) @@ row

\* set heartbeat_at = now(), had the statement also set the row running
TouchRowSetsRunning(row, now) == [row EXCEPT !.heartbeat_at = now, !.status = "running"]

\* update ... set heartbeat_at = now() where id = ...
TouchRow(row, now) == [row EXCEPT !.heartbeat_at = now]

\* the latest reading stored: now() is not before it
LastBeat ==
  CHOOSE t \in {task.heartbeat_at} \cup {items[i].heartbeat_at : i \in DOMAIN items} :
    /\ t >= task.heartbeat_at
    /\ \A i \in DOMAIN items : t >= items[i].heartbeat_at

\* touch_ingest_task: at the top of the loop before the claim, and first in touch()
TouchTask(w) ==
  /\ wk[w].pc \in {"loop", "process"}
  /\ \E now \in LastBeat .. MaxClock : task' = TouchRow(task, now)
  /\ wk' = [wk EXCEPT ![w].pc = IF wk[w].pc = "process" THEN "touch_item" ELSE "loop"]
  /\ UNCHANGED <<items, runs, docs, tx, fs, job>>

\* touch_ingest_task_item on the item the worker holds, second in touch()
TouchItem(w) ==
  /\ wk[w].pc = "touch_item"
  /\ \E now \in LastBeat .. MaxClock :
       items' = [items EXCEPT ![wk[w].item] = TouchRow(items[wk[w].item], now)]
  /\ wk' = [wk EXCEPT ![w].pc = "process"]
  /\ UNCHANGED <<task, runs, docs, tx, fs, job>>

(* One worker started by main(), with the heartbeats of the loop and of the *)
(* pipelines, and a second run of main() on the same task that is killed    *)
(* once its prepare is through.                                             *)
InitBeat ==
  /\ task = WithHeartbeat(NewTask("full", "pdf", "fail", FALSE, NULL), 0)
  /\ items = [i \in Ordinals |-> WithHeartbeat(NewItems[i], 0)]
  /\ wk = [w \in Workers |-> IdleWorker]
  /\ runs = 0
  /\ docs = NoDocuments
  /\ tx = IdleTx
  /\ fs = NoFiles
  /\ job = IdleJob

\* a run that gets as far as the end of prepare_ingest_task_run
PreparesOnly(w) ==
  \/ PrepareRead(w)
  \/ PrepareRecover(w)
  \/ PrepareStart(w)
  \/ wk[w].pc \in {"loop", "exit"} /\ ProcessEnds(w)

NextBeat ==
  \/ \E w \in {"w1"} : PrepareRead(w) \/ RunStep(w) \/ TouchTask(w) \/ TouchItem(w)
  \/ \E w \in {"w2"} : PreparesOnly(w)

SpecBeat == InitBeat /\ [][NextBeat]_vars

(* ----------------------------------------------------------- error texts *)
(* _exception_text and the except branch of _run_ingest_task with the text  *)
(* of the exception: last_error holds the text itself.                      *)

\* message[:2000]
MaxErrorText == 2000

RECURSIVE Doubled(_, _)
\* s repeated 2^k times
Doubled(s, k) == IF k = 0 THEN s ELSE Doubled(s \o s, k - 1)

\* a message of n characters, none of them white space
TextOf(n) == SubSeq(Doubled("x", 11), 1, n)

\* str(exc) of the exceptions a pipeline raises: empty, blank, padded, and around the limit
Messages ==
  {"", "   ", " boom ", TextOf(MaxErrorText), TextOf(MaxErrorText + 1),
   " " \o TextOf(MaxErrorText) \o " "}

\* exc.__class__.__name__
ClassNames == {"RuntimeError"}

RECURSIVE StripText(_)
\* str.strip()
StripText(s) ==
  IF s = "" THEN s
  ELSE IF Head(s) = " " THEN StripText(Tail(s))
  ELSE IF SubSeq(s, Len(s), Len(s)) = " " THEN StripText(SubSeq(s, 1, Len(s) - 1))
  ELSE s

\* _exception_text without the slice
ExceptionTextUncut(msg, cls) ==
  LET message == StripText(msg) IN IF message = "" THEN cls ELSE message

\* _exception_text
ExceptionText(msg, cls) ==
  LET message == StripText(msg)
      text == IF message = "" THEN cls ELSE message IN
    SubSeq(text, 1, Min(Len(text), MaxErrorText))

\* except Exception as e: error = _exception_text(e); the item is marked skipped or
\* failed with it, by the run's error strategy
ItemRaisedWithText(w) ==
  /\ wk[w].pc = "process"
  /\ wk[w].item \notin fs.gone
  /\ \E msg \in Messages, cls \in ClassNames :
       LET error == ExceptionText(msg, cls) IN
         IF wk[w].req.es = "skip"
         THEN /\ items' = [items EXCEPT ![wk[w].item] =
                             MarkItem(items[wk[w].item], "skipped", error)]
              /\ wk' = [wk EXCEPT ![w].pc = "loop"]
         ELSE /\ items' = [items EXCEPT ![wk[w].item] =
                             MarkItem(items[wk[w].item], "failed", error)]
              /\ wk' = [wk EXCEPT ![w].pc = "fail_task", ![w].res = error]
  /\ UNCHANGED <<task, runs, docs, tx, fs, job>>

\* mark_ingest_task_failed with the same error, then the exception leaves the run
TaskFailedWithText(w) ==
  /\ wk[w].pc = "fail_task"
  /\ task' = [task EXCEPT !.status = "failed", !.last_error = wk[w].res]
  /\ wk' = [wk EXCEPT ![w] = [IdleWorker EXCEPT !.pc = "exit", !.res = "failed"]]
  /\ UNCHANGED <<items, runs, docs, tx, fs, job>>

(* The worker of SpecMissing with the texts of the exceptions, and a second *)
(* run of main() on the same task that is killed once its prepare is       *)
(* through.                                                                *)
RunStepWithText(w) ==
  \/ PrepareRead(w)
  \/ PrepareRecover(w)
  \/ PrepareStart(w)
  \/ ClaimSelect(w)
  \/ ClaimUpdate(w)
  \/ ItemCompleted(w)
  \/ ItemRaisedWithText(w)
  \/ TaskFailedWithText(w)
  \/ ItemNotFound(w)
  \/ TaskFailedNotFound(w)
  \/ CompleteIfDone(w)
  \/ RunReturns(w)
  \/ Interrupt(w)
  \/ InterruptTask(w)
  \/ ProcessEnds(w)

NextErr ==
  \/ \E w \in {"w1"} : RunStepWithText(w)
  \/ \E w \in {"w2"} : PreparesOnly(w)

SpecErr == InitMissing /\ [][NextErr]_vars

(* --------------------------------------------------------------- batches *)
(* _embed_and_store from its first line: the batch size read from the        *)
(* environment, and the slices of chunks sent to the embeddings client.  The *)
(* job record gets two more fields: env, the value of INGEST_EMBED_BATCH_SIZE *)
(* (NULL when unset), and requests, the input_texts of the calls made so far. *)

\* values of INGEST_EMBED_BATCH_SIZE
EnvValues == {NULL, "", "  ", "abc", "1.5", "0", "-1", "-128", "1", " 2 ", "+2", "128"}

DigitChars == {"0", "1", "2", "3", "4", "5", "6", "7", "8", "9"}

DigitValue(c) ==
  CASE c = "0" -> 0 [] c = "1" -> 1 [] c = "2" -> 2 [] c = "3" -> 3 [] c = "4" -> 4
    [] c = "5" -> 5 [] c = "6" -> 6 [] c = "7" -> 7 [] c = "8" -> 8 [] c = "9" -> 9

RECURSIVE AllDigits(_)
AllDigits(s) == s = "" \/ (Head(s) \in DigitChars /\ AllDigits(Tail(s)))

RECURSIVE DecimalValue(_)
DecimalValue(s) ==
  IF s = "" THEN 0
  ELSE DecimalValue(SubSeq(s, 1, Len(s) - 1)) * 10 + DigitValue(SubSeq(s, Len(s), Len(s)))

\* int(s) of a stripped string: an optional sign and decimal digits, else ValueError
IntOf(s) ==
  LET signed == s # "" /\ Head(s) \in {"+", "-"}
      digits == IF signed THEN Tail(s) ELSE s IN
    IF digits = "" \/ ~ AllDigits(digits) THEN [ok |-> FALSE, value |-> 0]
    ELSE [ok |-> TRUE,
          value |-> IF signed /\ Head(s) = "-" THEN 0 - DecimalValue(digits)
                    ELSE DecimalValue(digits)]

\* batch_size of _embed_and_store
ParseBatchSize(raw) ==
  LET batch_size_raw == StripText(IF raw = NULL THEN "" ELSE raw)
      parsed == IntOf(batch_size_raw) IN
    IF batch_size_raw = "" THEN DefaultBatchSize
    ELSE IF ~ parsed.ok THEN DefaultBatchSize
    ELSE IF parsed.value <= 0 THEN DefaultBatchSize
    ELSE parsed.value

\* the slice of the loop, had every batch started at the first chunk
BatchSliceFromFirst(chunks, k, batch_size) ==
  SubSeq(chunks, 1, Min(Len(chunks), batch_size))

\* chunks[start:end] of the k-th iteration of range(0, len(chunks), batch_size)
BatchSlice(chunks, k, batch_size) ==
  LET start == (k - 1) * batch_size
      end == Min(Len(chunks), start + batch_size) IN
    SubSeq(chunks, start + 1, end)

\* _embed_and_store is called on a non-empty chunk list
EmbedCalled ==
  /\ job.pc = "idle" /\ tx.pc = "idle"
  /\ \E raw \in EnvValues, n \in 1 .. (MaxChunks + 1), p \in SourcePaths, h \in Hashes :
       job' = ("env" :> raw) @@ ("requests" :> <<>>) @@
              [IdleJob EXCEPT !.pc = "embed", !.input_mode = "pdf",
                              !.pipeline_mode = "full", !.file = p, !.source_path = p,
                              !.sha256 = h, !.chunks = Numbered(n),
                              !.batch_size = ParseBatchSize(raw)]
  /\ UNCHANGED <<task, items, wk, runs, docs, tx, fs>>

\* one iteration of the loop: lm.embeddings is sent the next slice and returns some
\* vectors, or raises
EmbedBatchSent ==
  /\ job.pc = "embed"
  /\ Sent(job) < Len(job.chunks)
  /\ LET sent == [job EXCEPT !.requests =
                    Append(@, BatchSlice(job.chunks, Len(job.parts) + 1, job.batch_size))] IN
       \/ \E r \in 0 .. (MaxChunks + 1) : job' = [sent EXCEPT !.parts = Append(@, r)]
       \/ job' = [sent EXCEPT !.pc = "raised", !.res = "embed_failed"]
  /\ UNCHANGED <<task, items, wk, runs, docs, tx, fs>>

(* Calls of _embed_and_store with any value of the environment variable. *)
NextBatch ==
  \/ EmbedCalled
  \/ EmbedBatchSent
  \/ EmbedDone
  \/ TxDelete
  \/ TxInsertDocument
  \/ TxInsertSegments
  \/ TxInsertEmbeddings
  \/ TxCommit
  \/ ReplaceDone
  \/ JobEnds
  \/ JobKilled

SpecBatch == Init /\ [][NextBatch]_vars

(* ---------------------------------------------------------------- claims *)

\* worker w calls prepare_ingest_task_run in this step
PrepareCalled(w) == wk[w].pc = "idle" /\ wk'[w].pc # "idle"

\* the call of prepare_ingest_task_run by w raised in this step
PrepareRaised(w) == wk'[w].pc = "exit"

\* worker w's claim returns an item in this step
ClaimReturned(w) == wk[w].pc = "claim" /\ wk'[w].pc = "process"

\* a step that is not worker w's
NotStepOf(w) == wk'[w] = wk[w]

CountItems(statuses) == Cardinality({i \in Ordinals : items[i].status \in statuses})

\* C1: a claim returns an item only by taking it out of pending, so within one
\* pending period of an item at most one caller of claim_next_ingest_task_item
\* gets it: two simultaneous claimants get distinct items or nothing.
ClaimTakesPendingItem ==
  [][\A w \in Workers : ClaimReturned(w) => items[wk'[w].item].status = "pending"]_vars

\* C2: in every reachable state a completed task has only completed and skipped
\* items (none pending, running or failed).
CompletedTaskHasOnlyFinishedItems ==
  task.status = "completed" =>
    \A i \in Ordinals : items[i].status \in {"completed", "skipped"}

\* C3: mark_ingest_task_completed_if_done sets the task completed and returns true
\* exactly when the task is running with no pending, running or failed item;
\* otherwise it returns false and changes neither the task nor any item.
CompleteIfDoneExactly ==
  [][\A w \in Workers :
       (wk[w].pc = "drained" /\ wk'[w].pc = "report") =>
         /\ items' = items
         /\ IF task.status = "running" /\ CountItems({"pending", "running"}) = 0
               /\ CountItems({"failed"}) = 0
            THEN task'.status = "completed" /\ wk'[w].res = "true"
            ELSE task' = task /\ wk'[w].res = "false"]_vars

CompleteIfDoneReturnedTrue ==
  \E w \in Workers :
    wk[w].pc = "report" /\ wk[w].res = "true" /\ task.status = "completed"

\* C4: completed is terminal: once the task is completed no operation changes its
\* status again.
CompletedIsTerminal == [][task.status = "completed" => task'.status = "completed"]_vars

\* C5: every change of an item's status is pending->running, running->completed,
\* running->failed, running->skipped, running->pending or failed->pending; an item
\* that is completed or skipped never changes status and is never claimed again.
ItemTransitions ==
  {<<"pending", "running">>, <<"running", "completed">>, <<"running", "failed">>,
   <<"running", "skipped">>, <<"running", "pending">>, <<"failed", "pending">>}

ItemStatusChangesAreLegal ==
  [][\A i \in Ordinals :
       /\ items'[i].status # items[i].status =>
            <<items[i].status, items'[i].status>> \in ItemTransitions
       /\ items[i].status \in {"completed", "skipped"} =>
            (items'[i].status = items[i].status /\ items'[i].attempt = items[i].attempt)]_vars

\* C6: while an item is running under worker w's claim, no step of another worker
\* changes the item's status.
HeldItemChangedOnlyByHolder ==
  [][\A w \in Workers : \A i \in Ordinals :
       (wk[w].pc = "process" /\ wk[w].item = i /\ items[i].status = "running"
          /\ NotStepOf(w))
       => items'[i].status = "running"]_vars

\* C7: prepare_ingest_task_run on a running task that another, live worker is
\* running raises, before any item is touched.
SecondResumeRejected ==
  [][\A w \in Workers :
       (PrepareCalled(w) /\ task.status = "running"
          /\ \E v \in Workers \ {w} : wk[v].pc \in InRun)
       => (PrepareRaised(w) /\ items' = items)]_vars

\* C8: prepare_ingest_task_run on a completed task raises and changes neither the
\* task row nor any item row.
CompletedTaskRejected ==
  [][\A w \in Workers :
       (PrepareCalled(w) /\ task.status = "completed") =>
         /\ PrepareRaised(w) /\ wk'[w].res = "already_completed"
         /\ task' = task /\ items' = items]_vars

ResumeOfCompletedRaised ==
  \E w \in Workers :
    wk[w].pc = "exit" /\ wk[w].res = "already_completed" /\ task.status = "completed"

\* the request's pipeline mode or input mode differs from the stored task's
ModeDiffers(t, r) ==
  \/ r.epm # NULL /\ r.epm # t.pipeline_mode
  \/ r.eim # NULL /\ r.eim # t.input_mode

ConfigConflict == {"mode_mismatch", "input_mismatch", "output_mismatch"}

\* C9 as stated: a request whose pipeline mode or input mode differs from the
\* stored task's raises a configuration-conflict error and leaves the task row and
\* every item row unchanged.
ModeMismatchRaisesConflict ==
  [][\A w \in Workers :
       (PrepareCalled(w) /\ ModeDiffers(task, wk'[w].req)) =>
         /\ PrepareRaised(w) /\ wk'[w].res \in ConfigConflict
         /\ task' = task /\ items' = items]_vars

\* C9 amended: such a request raises and leaves the task row and every item row
\* unchanged; the error is the configuration conflict unless the task is already
\* completed, and then it is the already-completed error.
ModeMismatchRaises ==
  [][\A w \in Workers :
       (PrepareCalled(w) /\ ModeDiffers(task, wk'[w].req)) =>
         /\ PrepareRaised(w)
         /\ wk'[w].res \in (IF task.status = "completed"
                            THEN {"already_completed"} ELSE ConfigConflict)
         /\ task' = task /\ items' = items]_vars

ModeMismatchRaised ==
  \E w \in Workers :
    /\ wk[w].pc = "exit" /\ wk[w].res = "mode_mismatch"
    /\ task.pipeline_mode = "full" /\ wk[w].req.epm = "extract_only"
    /\ task.status \in {"failed", "interrupted"}

\* C10: an item that is running when the interrupt handler or the next resume
\* recovers it becomes pending with its attempt count unchanged and a non-null
\* last_error; and both recoveries leave no running item behind.
RecoveryStep(w) ==
  \/ wk[w].pc \in InRun /\ wk'[w].pc = "intr_task"
  \/ wk[w].pc = "prep_items" /\ wk'[w].pc = "prep_task"

RunningItemRecovered ==
  [][\A i \in Ordinals :
       /\ (items[i].status = "running" /\ items'[i].status = "pending") =>
            (items'[i].attempt = items[i].attempt /\ items'[i].last_error # NULL)
       /\ (items[i].status = "running" /\ \E w \in Workers : RecoveryStep(w)) =>
            items'[i].status = "pending"]_vars

CrashedItemRecoveredByResume ==
  \E i \in Ordinals :
    /\ items[i].status = "pending" /\ items[i].attempt >= 1
    /\ items[i].last_error = RecoveredMarker
    /\ \E w \in Workers : wk[w].pc = "prep_task"

\* the row back in pending: its last_error kept, or the marker where it had none
RecoveredRow(row, marker) ==
  [row EXCEPT !.status = "pending",
              !.last_error = IF row.last_error # NULL THEN row.last_error ELSE marker]

\* C11: the item statement of a successful prepare_ingest_task_run makes every
\* running or failed item pending, keeps a last_error the item already had, and
\* leaves every other item as it was (status, attempt, last_error); its task
\* statement sets the task running with last_error cleared and touches no item.
PrepareRecoversAndStarts ==
  [][\A w \in Workers :
       /\ (wk[w].pc = "prep_items" /\ wk'[w].pc = "prep_task") =>
            /\ task' = task
            /\ \A i \in Ordinals :
                 items'[i] = IF items[i].status \in {"running", "failed"}
                             THEN RecoveredRow(items[i], RecoveredMarker)
                             ELSE items[i]
       /\ (wk[w].pc = "prep_task" /\ wk'[w].pc = "loop") =>
            /\ items' = items
            /\ task'.status = "running" /\ task'.last_error = NULL]_vars

FailedTaskResumed ==
  \E w \in Workers :
    /\ wk[w].pc = "loop" /\ task.status = "running" /\ task.last_error = NULL
    /\ \E i, j \in Ordinals :
         /\ items[i].status = "pending" /\ items[i].attempt = 1
         /\ items[i].last_error = PipelineError
         /\ items[j].status = "completed" /\ items[j].attempt = 1

\* C12: the item statement of the interrupt handler makes every running item
\* pending with the interruption marker and leaves completed, skipped, failed and
\* pending items as they were, so no item is running after it; its task statement
\* sets the task interrupted, and the process then exits with status 130.
InterruptRecoversAndExits ==
  [][\A w \in Workers :
       /\ (wk[w].pc \in InRun /\ wk'[w].pc = "intr_task") =>
            /\ task' = task
            /\ \A i \in Ordinals :
                 /\ items'[i].status # "running"
                 /\ items'[i] = IF items[i].status = "running"
                                THEN [items[i] EXCEPT !.status = "pending",
                                                      !.last_error = InterruptedMarker]
                                ELSE items[i]
       /\ (wk[w].pc = "intr_task" /\ wk'[w].pc = "exit") =>
            /\ items' = items
            /\ task'.status = "interrupted" /\ task'.last_error = InterruptedByUser
            /\ wk'[w].res = "130"]_vars

InterruptedAtAnItem ==
  \E w \in Workers :
    /\ wk[w].pc = "exit" /\ wk[w].res = "130" /\ task.status = "interrupted"
    /\ \A i \in Ordinals : items[i].status # "running"
    /\ \E i, j \in Ordinals :
         /\ items[i].status = "pending" /\ items[i].attempt = 1
         /\ items[i].last_error = InterruptedMarker
         /\ items[j].status = "completed"

\* an item is failed, every item before it completed, every item after it untouched
StoppedAtFirstFailure ==
  \A i \in Ordinals :
    items[i].status = "failed" =>
      /\ \A j \in Ordinals : j < i => items[j].status = "completed"
      /\ \A j \in Ordinals : j > i => items[j].status = "pending" /\ items[j].attempt = 0

\* C13: with error_strategy=fail, the failing pipeline's item, still running under
\* the claim, is marked failed with the error; the worker's next step, unless it is
\* interrupted or killed first, marks the task failed with the error and ends the
\* process, so it claims nothing more; and while only one run has been started,
\* every item before a failed item is completed and every item after it is pending
\* with attempt 0.
FailFast ==
  [][/\ \A w \in Workers :
          /\ (wk[w].pc = "process" /\ wk'[w].pc = "fail_task"
                /\ items[wk[w].item].status = "running") =>
               items' = [items EXCEPT ![wk[w].item] =
                           [items[wk[w].item] EXCEPT !.status = "failed",
                                                     !.last_error = PipelineError]]
          /\ (wk[w].pc = "fail_task" /\ ~ NotStepOf(w)) =>
               \/ /\ wk'[w].pc = "exit" /\ wk'[w].res = "failed"
                  /\ task'.status = "failed" /\ task'.last_error = PipelineError
                  /\ items' = items
               \/ wk'[w].pc \in {"intr_task", "idle"}
     /\ runs' = 1 => StoppedAtFirstFailure']_vars

FirstItemFailedFast ==
  \E w \in Workers :
    /\ runs = 1 /\ wk[w].pc = "exit" /\ wk[w].res = "failed"
    /\ task.status = "failed" /\ task.last_error = PipelineError
    /\ items[0].status = "failed" /\ items[0].last_error = PipelineError
    /\ \A j \in Ordinals : j > 0 => items[j].status = "pending" /\ items[j].attempt = 0

\* C14: in a run with error_strategy=skip, no step of the worker makes the task
\* failed or an item failed; the failing pipeline's item, still running under the
\* claim, ends skipped with the error text in last_error and its attempt unchanged,
\* and the worker is back at the top of its loop to claim the next item.
SkipKeepsTheRunGoing ==
  [][\A w \in Workers :
       (wk[w].pc \in InRun /\ wk[w].req.es = "skip" /\ ~ NotStepOf(w)) =>
         /\ task'.status = "failed" => task.status = "failed"
         /\ \A i \in Ordinals : items'[i].status = "failed" => items[i].status = "failed"
         /\ wk'[w].pc # "fail_task"
         /\ wk[w].pc = "process" =>
              /\ wk'[w].pc \in {"loop", "intr_task", "idle"}
              /\ (wk'[w].pc = "loop" /\ items[wk[w].item].status = "running"
                    /\ items'[wk[w].item].status # "completed") =>
                   items' = [items EXCEPT ![wk[w].item] =
                               [items[wk[w].item] EXCEPT !.status = "skipped",
                                                         !.last_error = PipelineError]]]_vars

ClaimedAfterASkip ==
  \E w \in Workers :
    /\ wk[w].pc = "process" /\ wk[w].req.es = "skip" /\ wk[w].item = 1
    /\ items[0].status = "skipped" /\ items[0].last_error = PipelineError
    /\ task.status = "running" /\ runs = 1

\* every item is in one of the given statuses
AllItems(statuses) == \A i \in Ordinals : items[i].status \in statuses

\* C15: a single-worker run with error_strategy=skip that nothing interrupts
\* ends: once prepare_ingest_task_run accepted it, the process reaches its exit
\* with status 0, with the task completed and every item completed or skipped
\* after exactly one claim (attempt 1), whichever pipelines raise; and the loop
\* is left only when no item is pending any more.
SkipRunTerminates ==
  /\ \A w \in Workers :
       (wk[w].pc = "prep_items") ~>
         (/\ wk[w].pc = "exit" /\ wk[w].res = "0"
          /\ task.status = "completed"
          /\ \A i \in Ordinals :
               items[i].status \in {"completed", "skipped"} /\ items[i].attempt = 1)
  /\ [](\A w \in Workers :
          wk[w].pc \in {"drained", "report"} => AllItems({"completed", "skipped"}))

SkipRunEndedWithASkippedItem ==
  \E w \in Workers :
    /\ wk[w].pc = "exit" /\ wk[w].res = "0" /\ task.status = "completed"
    /\ \E i, j \in Ordinals :
         /\ items[i].status = "skipped" /\ items[i].attempt = 1
         /\ items[j].status = "completed" /\ items[j].attempt = 1

\* C16: with one worker at a time and pipelines that succeed, after finitely many
\* interruptions and kills, each followed by a resume, the task is eventually
\* completed with every item completed, and stays so: no item remains running or
\* pending forever.
ResumedTaskCompletes ==
  <>[](task.status = "completed" /\ AllItems({"completed"}))

CompletedAfterAResume ==
  /\ runs = 2 /\ task.status = "completed" /\ AllItems({"completed"})
  /\ \E i \in Ordinals : items[i].attempt = 2

\* C17: claim_next_ingest_task_item returns none exactly when its sub-select finds
\* no pending item; otherwise it returns the pending item of the lowest ordinal,
\* which is still pending when the UPDATE sets it running with attempt + 1 and
\* last_error cleared, and no other item and not the task changes.
ClaimIsAtomic ==
  [][\A w \in Workers :
       /\ (wk[w].pc = "loop" /\ wk'[w].pc = "claim") =>
            IF \A i \in Ordinals : items[i].status # "pending"
            THEN wk'[w].sel = NoItem
            ELSE /\ wk'[w].sel \in Ordinals
                 /\ items[wk'[w].sel].status = "pending"
                 /\ \A j \in Ordinals : j < wk'[w].sel => items[j].status # "pending"
       /\ (wk[w].pc = "claim" /\ wk'[w].pc = "drained") =>
            wk[w].sel = NoItem /\ items' = items /\ task' = task
       /\ ClaimReturned(w) =>
            /\ wk'[w].item = wk[w].sel /\ task' = task
            /\ items[wk[w].sel].status = "pending"
            /\ items' = [items EXCEPT ![wk[w].sel] =
                           [status |-> "running",
                            attempt |-> items[wk[w].sel].attempt + 1,
                            last_error |-> NULL]]]_vars

\* C18: within one worker's run the ordinals it claims are strictly
\* increasing, also when other workers claim, interrupt or resume.
ClaimedOrdinalsIncrease ==
  [][\A w \in Workers :
       (ClaimReturned(w) /\ wk[w].item # NoItem) => wk'[w].item > wk[w].item]_vars

\* C19: no item goes from pending to running while the task's status is not
\* running: once the task is failed, interrupted or completed, no worker claims
\* an item until a resume.
ClaimOnlyWhileTaskRuns ==
  [][\A i \in Ordinals :
       (items[i].status = "pending" /\ items'[i].status = "running")
       => task.status = "running"]_vars

\* the call of replace_document_content returns or raises in this step
ReplaceLeft == tx.pc \notin {"returned", "raised"} /\ tx'.pc \in {"returned", "raised"}

\* the document the call was to store
NewDocument(call) ==
  [sha256 |-> call.sha256, segment_count |-> Len(call.chunks),
   embedding_count |-> Len(call.chunks)]

\* C20 as stated: replace_document_content with N >= 1 chunks and N embeddings
\* leaves the document of source_path with segment_count = embedding_count = N
\* and the new fingerprint; with no chunks or with unequal counts it raises and
\* leaves the stored documents as they were.
ReplaceStoresOrRejects ==
  [][ReplaceLeft =>
       IF Len(tx'.chunks) >= 1 /\ Len(tx'.chunks) = tx'.embeddings
       THEN /\ tx'.source_path \in DOMAIN docs'
            /\ docs'[tx'.source_path] = NewDocument(tx')
       ELSE tx'.pc = "raised" /\ docs' = docs]_vars

\* C20 amended: a call with no chunks or with unequal counts raises before it
\* touches the store, and only such a call does; a call that returns had N >= 1
\* chunks and N embeddings and leaves the document of source_path with
\* segment_count = embedding_count = N and the new fingerprint, the other
\* documents unchanged; and a call that raises, on its arguments or on an insert
\* the database refuses, leaves every stored document as it was.
ReplaceStoresOrLeavesIntact ==
  [][/\ (tx.pc = "idle" /\ tx'.pc # "idle") =>
          /\ docs' = docs
          /\ tx'.pc = "raised" <=>
               (Len(tx'.chunks) = 0 \/ Len(tx'.chunks) # tx'.embeddings)
     /\ tx'.pc = "raised" => docs' = docs
     /\ (ReplaceLeft /\ tx'.pc = "returned") =>
          /\ Len(tx'.chunks) >= 1 /\ Len(tx'.chunks) = tx'.embeddings
          /\ docs' = (tx'.source_path :> NewDocument(tx')) @@ docs]_vars

MismatchLeftTheDocumentIntact ==
  /\ tx.pc = "raised" /\ tx.res = "count_mismatch"
  /\ tx.source_path \in DOMAIN docs
  /\ docs[tx.source_path].sha256 # tx.sha256
  /\ docs[tx.source_path].segment_count = 2
  /\ docs[tx.source_path].embedding_count = 2

\* the open transaction of a replace holds a document that is not complete
HalfReplaced ==
  /\ tx.pc \in {"insert_segments", "insert_embeddings"}
  /\ tx.work[tx.source_path].segment_count # tx.work[tx.source_path].embedding_count
     \/ tx.work[tx.source_path].segment_count = 0

\* C21: in every state of the committed document store, which is what a
\* concurrent reader sees, also while a replace is under way and after a replace
\* was aborted by an error or a kill, each stored document has
\* segment_count = embedding_count > 0.
StoredDocumentsAreComplete ==
  \A p \in DOMAIN docs :
    docs[p].segment_count = docs[p].embedding_count /\ docs[p].segment_count > 0

\* a replace of a stored document is half done and the reader still sees the old one
OldDocumentSeenDuringReplace ==
  /\ HalfReplaced
  /\ tx.source_path \in DOMAIN docs
  /\ docs[tx.source_path].sha256 # tx.sha256
  /\ docs[tx.source_path].segment_count = 2

\* ingest_pdf is called in full mode in this step
FullPdfCalled ==
  job.pc = "idle" /\ job'.pc # "idle" /\ job'.input_mode = "pdf"
    /\ job'.pipeline_mode = "full"

\* the store holds for path p a document with fingerprint h and equal, positive counts
CompleteDocument(d, p, h) ==
  /\ p \in DOMAIN d
  /\ d[p].sha256 = h
  /\ d[p].segment_count = d[p].embedding_count
  /\ d[p].segment_count > 0

IndexedDocument(d, p, h) ==
  /\ p \in DOMAIN d
  /\ d[p] = [sha256 |-> h, segment_count |-> Len(ExtractChunks(h)),
             embedding_count |-> Len(ExtractChunks(h))]

MixedOrForeign(recs) ==
  /\ Len(recs) > 0
  /\ \/ \E i \in 1 .. Len(recs) : RowMeta(recs[i]) # RowMeta(recs[1])
     \/ RowMeta(recs[1])[3] # TaskStrategy

MissingFileHandled ==
  [][\A w \in {"w1"} :
       /\ (wk[w].pc = "process" /\ wk[w].item \in fs.gone /\ ~ NotStepOf(w)) =>
            /\ job' = job /\ docs' = docs /\ tx' = tx
            /\ \/ wk'[w].pc \in {"intr_task", "idle"}
               \/ /\ wk[w].req.es = "skip" /\ wk'[w].pc = "loop" /\ task' = task
                  /\ items' = [items EXCEPT ![wk[w].item] =
                       [items[wk[w].item] EXCEPT
                          !.status = "skipped",
                          !.last_error = NotFoundError(task.input_mode)]]
               \/ /\ wk[w].req.es = "fail" /\ wk'[w].pc = "fail_missing"
                  /\ task' = task
                  /\ items' = [items EXCEPT ![wk[w].item] =
                       [items[wk[w].item] EXCEPT
                          !.status = "failed",
                          !.last_error = NotFoundError(task.input_mode)]]
       /\ (wk[w].pc = "fail_missing" /\ ~ NotStepOf(w)) =>
            \/ wk'[w].pc \in {"intr_task", "idle"}
            \/ /\ wk'[w].pc = "exit" /\ wk'[w].res = "failed"
               /\ task'.status = "failed"
               /\ task'.last_error = NotFoundError(task.input_mode)
               /\ items' = items]_vars

\* the run stopped at the second item, whose file is gone
StoppedAtAMissingFile ==
  /\ wk["w1"].pc = "exit" /\ wk["w1"].res = "failed"
  /\ task.status = "failed" /\ task.last_error = NotFoundError(task.input_mode)
  /\ items[0].status = "completed"
  /\ items[1].status = "failed" /\ items[1].last_error = task.last_error
  /\ 1 \in fs.gone

\* C30: no step changes the task's pipeline_mode or input_mode, while each
\* prepare_ingest_task_run that starts a run writes the run's error_strategy and
\* force over the stored ones.
ModesNeverChange ==
  [][/\ task'.pipeline_mode = task.pipeline_mode
     /\ task'.input_mode = task.input_mode
     /\ \A w \in Workers :
          (wk[w].pc = "prep_task" /\ wk'[w].pc = "loop") =>
            /\ task'.error_strategy = wk[w].req.es
            /\ task'.force = wk[w].req.force]_vars

\* the first run of an extract_only task failed at item 0, so it ran with fail;
\* the second run has written skip and force over the stored values, the modes
\* being what they were
SecondRunOverwroteStrategy ==
  /\ runs = 2 /\ wk["w1"].pc = "loop"
  /\ task.status = "running"
  /\ task.error_strategy = "skip" /\ task.force
  /\ task.pipeline_mode = "extract_only" /\ task.input_mode = "pdf"
  /\ items[0].status = "pending" /\ items[0].last_error = PipelineError

\* a request that names an output directory other than the one the task has stored
OutDirDiffers(t, r) ==
  /\ r.eod # NULL /\ t.extract_output_dir # NULL /\ r.eod # t.extract_output_dir

CreateYieldsTheItems ==
  [][\A w \in Workers :
       /\ (wk[w].pc = "create_read" /\ wk'[w].pc = "created") =>
            /\ task'.status = "pending"
            /\ Cardinality(DOMAIN items') = Cardinality(DOMAIN fs.pdf)
            /\ DOMAIN items' = 0 .. (Cardinality(DOMAIN fs.pdf) - 1)
            /\ \A i \in DOMAIN items' :
                 /\ items'[i].status = "pending" /\ items'[i].attempt = 0
                 /\ items'[i].source_path \in DOMAIN fs.pdf
                 /\ \A j \in DOMAIN items' :
                      /\ i # j => items'[i].source_path # items'[j].source_path
                      /\ (i < j) =>
                           (items'[i].source_path = "a.pdf"
                            /\ items'[j].source_path = "b.pdf")
       /\ wk[w].pc \notin {"idle", "create_items"} =>
            {<<i, items'[i].source_path>> : i \in DOMAIN items'}
              = {<<i, items[i].source_path>> : i \in DOMAIN items}
       /\ (wk[w].pc = "idle" /\ wk'[w].pc \in {"prep_items", "exit"}) =>
            /\ (task.status = "absent") = (task'.status = "absent")
            /\ DOMAIN items' = DOMAIN items]_vars

\* a task created over two files was run, and a later resume is under way
TwoItemsCreatedAndResumed ==
  \E w \in Workers :
    /\ wk[w].pc = "prep_items" /\ runs = 2
    /\ DOMAIN items = {0, 1}
    /\ items[0].source_path = "a.pdf" /\ items[1].source_path = "b.pdf"
    /\ items[0].attempt = 1

\* C36 as stated: in no state does a task row exist with fewer items than the paths
\* it was created from, and no task is completed over fewer items than its paths.
CreationIsAllOrNothing ==
  task.status # "absent" => Cardinality(DOMAIN items) = Cardinality(DOMAIN fs.pdf)

\* a resume completed a task that has no item at all
CompletedOverNoItems ==
  task.status = "completed" /\ DOMAIN items = {} /\ runs = 2

\* worker w's heartbeat statement runs in this step
Heartbeat(w) ==
  /\ \A v \in Workers \ {w} : NotStepOf(v)
  /\ \/ wk[w].pc = "loop" /\ wk'[w].pc = "loop"
     \/ wk[w].pc = "process" /\ wk'[w].pc = "touch_item"
     \/ wk[w].pc = "touch_item" /\ wk'[w].pc = "process"

\* C33: a heartbeat changes only heartbeat timestamps: the status and last_error of
\* the task and the status, attempt and last_error of every item are the same
\* before and after it, whatever the state.
HeartbeatChangesOnlyTimestamps ==
  [][\A w \in Workers :
       Heartbeat(w) =>
         /\ task'.status = task.status /\ task'.last_error = task.last_error
         /\ task'.error_strategy = task.error_strategy
         /\ \A i \in Ordinals :
              /\ items'[i].status = items[i].status
              /\ items'[i].attempt = items[i].attempt
              /\ items'[i].last_error = items[i].last_error]_vars

\* both heartbeats of touch() were written for an item that another run's prepare had
\* put back to pending
HeartbeatOnARecoveredItem ==
  \E w \in Workers :
    /\ wk[w].pc = "process" /\ wk[w].item # NoItem
    /\ items[wk[w].item].status = "pending"
    /\ items[wk[w].item].last_error = RecoveredMarker
    /\ items[wk[w].item].heartbeat_at = MaxClock /\ task.heartbeat_at = MaxClock

\* C34: every failed or skipped item has a non-null, non-empty last_error, every
\* failed or interrupted task has a non-null last_error, and no stored error text is
\* longer than 2000 characters.
TerminalFailuresKeepABoundedError ==
  /\ \A i \in DOMAIN items :
       /\ items[i].status \in {"failed", "skipped"} =>
            items[i].last_error # NULL /\ items[i].last_error # ""
       /\ Len(items[i].last_error) <= 2000
  /\ task.status \in {"failed", "interrupted"} => task.last_error # NULL
  /\ Len(task.last_error) <= 2000

\* a blank message was stored as the class name on a skipped item, and a message over
\* the limit was stored cut on a failed item and on its task
BlankAndLongErrorsStored ==
  \E i, j \in DOMAIN items :
    /\ items[i].status = "skipped" /\ items[i].last_error = "RuntimeError"
    /\ items[j].status = "failed" /\ Len(items[j].last_error) = 2000
    /\ task.status = "failed" /\ task.last_error = items[j].last_error

RECURSIVE Flat(_)
\* the requests one after another
Flat(reqs) == IF Len(reqs) = 0 THEN <<>> ELSE Head(reqs) \o Flat(Tail(reqs))

\* the values of INGEST_EMBED_BATCH_SIZE that are positive integers, and what they say
PositiveSizes == (" 2 " :> 2) @@ ("+2" :> 2) @@ ("1" :> 1) @@ ("128" :> 128)

\* C35: the batches sent are consecutive slices of the chunks in their order, each of
\* 1 to batch_size chunks and every chunk in exactly one; when the loop is through
\* ceil(len(chunks) / batch_size) requests were made; and batch_size is 128 when the
\* environment variable is unset, not a number, zero or negative.
BatchesCoverTheChunksInOrder ==
  "requests" \in DOMAIN job =>
    LET n == Len(job.chunks)
        size == IF job.env \in DOMAIN PositiveSizes THEN PositiveSizes[job.env] ELSE 128
        made == Len(job.requests) IN
      /\ job.batch_size = size
      /\ \A k \in 1 .. made : Len(job.requests[k]) \in 1 .. size
      /\ Flat(job.requests) = SubSeq(job.chunks, 1, Len(Flat(job.requests)))
      /\ (made - 1) * size < n
      /\ job.pc \in {"replace", "returned"} =>
           Flat(job.requests) = job.chunks /\ n <= made * size

\* three chunks went out in two requests of two and one under INGEST_EMBED_BATCH_SIZE=" 2 "
LastBatchWasShort ==
  /\ "requests" \in DOMAIN job /\ job.pc = "replace"
  /\ job.env = " 2 " /\ job.requests = <<<<0, 1>>, <<2>>>>

\* an unusable value of the variable gave one request with all the chunks
InvalidSizeFellBackToDefault ==
  /\ "requests" \in DOMAIN job /\ job.pc = "replace"
  /\ job.env = "-1" /\ job.batch_size = 128 /\ job.requests = <<<<0, 1, 2>>>>

\* C37: attempt counts the claims that returned the item: it is 0 after creation, a
\* claim that returns the item adds exactly 1, no other step changes it, and every
\* item that is running, completed, failed or skipped has attempt >= 1.
AttemptCountsClaims ==
  /\ \A i \in Ordinals : items[i].attempt = 0
  /\ [][\A i \in Ordinals :
          /\ items'[i].attempt =
               items[i].attempt
                 + (IF \E w \in Workers : ClaimReturned(w) /\ wk'[w].item = i
                    THEN 1 ELSE 0)
          /\ items'[i].status # "pending" => items'[i].attempt >= 1]_vars

\* an item failed at its first claim is running again at its second, beside an item
\* that was never claimed
SecondClaimCounted ==
  /\ items[0].status = "running" /\ items[0].attempt = 2
  /\ items[1].status = "pending" /\ items[1].attempt = 0

\* worker w calls mark_ingest_task_item_completed, _failed or _skipped in this step
MarkCalled(w) ==
  wk[w].pc = "process" /\ wk'[w].pc \in {"loop", "fail_task", "fail_missing"}

\* C38: a call of mark_ingest_task_item_completed, _failed or _skipped changes its
\* item only if the item is running at that moment; on a pending, completed, failed
\* or skipped item it changes nothing, so the worker of an item that an interrupt has
\* put back to pending records no outcome on it; and no other item is changed.
MarkOnlyARunningItem ==
  [][\A w \in Workers :
       MarkCalled(w) =>
         /\ \A j \in Ordinals \ {wk[w].item} : items'[j] = items[j]
         /\ IF items[wk[w].item].status = "running"
            THEN items'[wk[w].item].status \in {"completed", "failed", "skipped"}
            ELSE items'[wk[w].item] = items[wk[w].item]]_vars

\* a worker's pipeline raised after another run's interrupt had put its item back to
\* pending: the mark left the item as the interrupt left it
OutcomeOfARecoveredItemDropped ==
  \E w \in Workers :
    /\ wk[w].pc = "fail_task" /\ wk[w].item # NoItem
    /\ items[wk[w].item].status = "pending"
    /\ items[wk[w].item].last_error = InterruptedMarker

\* the fingerprint of the call that ends in this step is stored under another path
StoredUnderAnotherPath ==
  \E q \in (DOMAIN docs) \ {tx'.source_path} : docs[q].sha256 = tx'.sha256

====
